---------------------------- MODULE Spec2Model ----------------------------
(***************************************************************************)
(* Model of the interactive Mandelbrot renderer of src/src/main.rs: the    *)
(* host render loop of main() (key polling, view parameters, uniform       *)
(* upload, draw, swap) and the escape-time iteration of the fragment       *)
(* shader function mandelbrot().                                           *)
(*                                                                         *)
(* The view parameters zoom, offsetx and offsety are f32 and substeps is   *)
(* i32 in the source.  f32 values are modelled bit-exactly as IEEE-754     *)
(* binary32 (sign, biased exponent, fraction) with round-to-nearest-even,  *)
(* subnormals, infinities and NaN; i32 keeps its width.                    *)
(***************************************************************************)
EXTENDS Integers, Sequences, FiniteSets, TLC

---------------------------------------------------------------------------
(* IEEE-754 binary32                                                       *)

\* The float with sign bit s, biased exponent e (0..255), fraction f (23 bits).
F32(s, e, f) == [s |-> s, e |-> e, f |-> f]

Pow2(k) == 2 ^ k

Zero(s) == F32(s, 0, 0)
Inf(s)  == F32(s, 255, 0)
NaN     == F32(0, 255, 4194304)

IsNaN(x)    == x.e = 255 /\ x.f # 0
IsInf(x)    == x.e = 255 /\ x.f = 0
IsZero(x)   == x.e = 0 /\ x.f = 0
IsFinite(x) == x.e < 255

\* A finite x equals (-1)^x.s * Sig(x) * 2^Exp(x).
Sig(x) == IF x.e = 0 THEN x.f ELSE 8388608 + x.f
Exp(x) == IF x.e = 0 THEN -149 ELSE x.e - 150

BL4(n) == IF n < 4 THEN (IF n < 2 THEN n ELSE 2) ELSE (IF n < 8 THEN 3 ELSE 4)
BL8(n) == IF n < 16 THEN BL4(n) ELSE 4 + BL4(n \div 16)
\* Number of significant bits of n, 0 <= n < 2^31.
BitLen(n) ==
    IF n < 65536
    THEN (IF n < 256 THEN BL8(n) ELSE 8 + BL8(n \div 256))
    ELSE (IF n < 16777216 THEN 16 + BL8(n \div 65536) ELSE 24 + BL8(n \div 16777216))

\* The float of sign s with significand q >= 2^23 at exponent E: an infinity
\* when the exponent is out of range.
Norm(s, q, E) == IF E + 150 >= 255 THEN Inf(s) ELSE F32(s, E + 150, q - 8388608)

\* The float of sign s with the rounded significand q <= 2^24 at exponent E
\* (E = -149 when q < 2^23, a subnormal).
PackV(s, q, E) ==
    IF q = 16777216 THEN Norm(s, 8388608, E + 1)
    ELSE IF q >= 8388608 THEN Norm(s, q, E)
    ELSE F32(s, 0, q)

Pack(s, q0, E) == CHOOSE x \in { PackV(s, q, E) : q \in {q0} } : TRUE

\* Round to nearest, ties to even: 1 when the quotient q with remainder r (out
\* of 2*half) and sticky bit st rounds up.
RoundUp(q, r, half, st) ==
    IF r > half \/ (r = half /\ (st = 1 \/ q % 2 = 1)) THEN 1 ELSE 0

\* M * 2^(E1 - sh) with the low sh bits of M rounded away (sh <= 0: none are).
Rounded(s, M, E1, st, sh) ==
    IF sh <= 0 THEN Pack(s, M * Pow2(-sh), E1)
    ELSE IF sh >= 31
         THEN Pack(s, IF sh = 31 /\ (M > Pow2(30) \/ (M = Pow2(30) /\ st = 1))
                      THEN 1 ELSE 0, E1)
    ELSE Pack(s, (M \div Pow2(sh))
                 + RoundUp(M \div Pow2(sh), M % Pow2(sh), Pow2(sh - 1), st), E1)

\* n is the bit length of M.  The result keeps 24 bits, or fewer where the
\* exponent would fall below that of the subnormals.
RoundTo(s, M, E, st, n) ==
    IF M = 0 THEN Zero(s)
    ELSE CHOOSE x \in
           { Rounded(s, M, E + sh, st, sh) :
               sh \in { IF E + (n - 24) < -149 THEN -149 - E ELSE n - 24 } } : TRUE

\* The binary32 nearest to (-1)^s * (M + st*eps) * 2^E, ties to even, where
\* 0 <= M < 2^31, st is the sticky bit (1 when nonzero bits lie below M) and
\* 0 < eps < 1.  Overflow gives an infinity, underflow is gradual.
RoundPack(s0, M0, E0, st0) ==
    CHOOSE x \in
      { RoundTo(s, M, E, st, BitLen(M)) :
          s \in {s0}, M \in {M0}, E \in {E0}, st \in {st0} } : TRUE

FNeg(x) == IF IsNaN(x) THEN NaN ELSE F32(1 - x.s, x.e, x.f)

\* a * b, correctly rounded.  The 48-bit product of the significands is formed
\* from 12-bit limbs so that every intermediate value fits in 31 bits.
FMulCore(a, b) ==
    LET s == (a.s + b.s) % 2 IN
    IF IsNaN(a) \/ IsNaN(b) THEN NaN
    ELSE IF IsInf(a) \/ IsInf(b)
         THEN (IF IsZero(a) \/ IsZero(b) THEN NaN ELSE Inf(s))
    ELSE IF IsZero(a) \/ IsZero(b) THEN Zero(s)
    ELSE
    LET h1    == Sig(a) \div 4096
        l1    == Sig(a) % 4096
        h2    == Sig(b) \div 4096
        l2    == Sig(b) % 4096
        mid   == h1 * l2 + l1 * h2
        low   == (mid % 4096) * 4096 + l1 * l2
        high  == h1 * h2 + (mid \div 4096) + (low \div 16777216)
        low24 == low % 16777216
        k     == IF BitLen(high) > 6 THEN BitLen(high) - 6 ELSE 0
        M     == high * Pow2(24 - k) + (low24 \div Pow2(k))
        st    == IF low24 % Pow2(k) # 0 THEN 1 ELSE 0
    IN  RoundPack(s, M, Exp(a) + Exp(b) + k, st)

\* a / b, correctly rounded, by long division in four 7-bit steps.
FDivCore(a, b) ==
    LET s == (a.s + b.s) % 2 IN
    IF IsNaN(a) \/ IsNaN(b) THEN NaN
    ELSE IF IsInf(a) THEN (IF IsInf(b) THEN NaN ELSE Inf(s))
    ELSE IF IsInf(b) THEN Zero(s)
    ELSE IF IsZero(b) THEN (IF IsZero(a) THEN NaN ELSE Inf(s))
    ELSE IF IsZero(a) THEN Zero(s)
    ELSE
    LET na == 24 - BitLen(Sig(a))
        nb == 24 - BitLen(Sig(b))
        Ma == Sig(a) * Pow2(na)
        Mb == Sig(b) * Pow2(nb)
        q0 == Ma \div Mb
        r0 == Ma % Mb
        q1 == (r0 * 128) \div Mb
        r1 == (r0 * 128) % Mb
        q2 == (r1 * 128) \div Mb
        r2 == (r1 * 128) % Mb
        q3 == (r2 * 128) \div Mb
        r3 == (r2 * 128) % Mb
        q4 == (r3 * 128) \div Mb
        r4 == (r3 * 128) % Mb
        Q  == (((q0 * 128 + q1) * 128 + q2) * 128 + q3) * 128 + q4
    IN  RoundPack(s, Q, (Exp(a) - na) - (Exp(b) - nb) - 28, IF r4 # 0 THEN 1 ELSE 0)

\* a + b, correctly rounded: the operand of smaller exponent is aligned with
\* three guard bits and a sticky bit.
FAddCore(a, b) ==
    IF IsNaN(a) \/ IsNaN(b) THEN NaN
    ELSE IF IsInf(a) THEN (IF IsInf(b) /\ a.s # b.s THEN NaN ELSE a)
    ELSE IF IsInf(b) THEN b
    ELSE IF IsZero(a) /\ IsZero(b) THEN Zero(IF a.s = b.s THEN a.s ELSE 0)
    ELSE IF IsZero(a) THEN b
    ELSE IF IsZero(b) THEN a
    ELSE
    LET x  == IF Exp(a) >= Exp(b) THEN a ELSE b
        y  == IF Exp(a) >= Exp(b) THEN b ELSE a
        d  == Exp(x) - Exp(y)
        A  == Sig(x) * 8
        B  == IF d >= 27 THEN 0 ELSE (Sig(y) * 8) \div Pow2(d)
        st == IF d >= 27 THEN 1
              ELSE IF (Sig(y) * 8) % Pow2(d) # 0 THEN 1 ELSE 0
    IN  IF x.s = y.s THEN RoundPack(x.s, A + B, Exp(x) - 3, st)
        ELSE IF st = 1 THEN RoundPack(x.s, A - B - 1, Exp(x) - 3, 1)
        ELSE IF A = B THEN Zero(0)
        ELSE IF A > B THEN RoundPack(x.s, A - B, Exp(x) - 3, 0)
        ELSE RoundPack(y.s, B - A, Exp(x) - 3, 0)

\* The operations as the program uses them.  Each operand is evaluated once
\* and the core is applied to the two resulting values.
FMul(x, y) == CHOOSE r \in { FMulCore(a, b) : a \in {x}, b \in {y} } : TRUE
FDiv(x, y) == CHOOSE r \in { FDivCore(a, b) : a \in {x}, b \in {y} } : TRUE
FAdd(x, y) == CHOOSE r \in { FAddCore(a, b) : a \in {x}, b \in {y} } : TRUE
FSub(x, y) == CHOOSE r \in { FAddCore(a, FNeg(b)) : a \in {x}, b \in {y} } : TRUE

\* x > 0.0 (false for NaN and for either zero).
FPositive(x) == ~IsNaN(x) /\ x.s = 0 /\ ~IsZero(x)

---------------------------------------------------------------------------
(* Bounds of the model                                                     *)

\* Frames explored by Spec, where any keys may be held in each frame.
MaxFrames == 2
\* Keys held down together in one frame of Spec.
MaxHeld == 2
\* Frames explored by SpecHold, where the same keys stay held throughout.
MaxHoldFrames == 10000
\* Key events delivered by one poll_events() call.
MaxEvents == 1
\* Clock ticks counted in elapsed_time; the count saturates there.
MaxElapsed == 1

---------------------------------------------------------------------------
(* Program constants                                                       *)

I32Max == 2147483647
I32Min == -I32Max - 1

One     == F32(0, 127, 0)          \* 1.
ZoomStep == F32(0, 127, 83886)     \* 1.01 as f32 (0x3F8147AE)
PanDiv  == F32(0, 134, 1441792)    \* 150.
Two     == F32(0, 128, 0)          \* 2.0

\* The keys polled with get_key, in the order main() tests them.
Keys == {"I", "K", "W", "S", "D", "A", "Backspace", "Up", "Down"}

\* Key events poll_events() may queue (set_key_polling(true)): one that
\* handle_window_event matches and one that it ignores.
EventKinds == { [key |-> "Escape", action |-> "Press"],
                [key |-> "Escape", action |-> "Release"] }

RECURSIVE SeqsUpTo(_, _)
SeqsUpTo(S, n) ==
    IF n = 0 THEN { <<>> }
    ELSE LET shorter == SeqsUpTo(S, n - 1)
         IN  shorter \cup { Append(q, x) : q \in shorter, x \in S }

EventBatches == SeqsUpTo(EventKinds, MaxEvents)

KeySets == { ks \in SUBSET Keys : Cardinality(ks) <= MaxHeld }

\* Key combinations that SpecHold keeps held for a whole run.
HoldSets == { {"I"}, {"K"}, {"Up"}, {"Down"}, {"K", "Down"}, {"I", "K"},
              {"I", "Backspace"} }

---------------------------------------------------------------------------
(* State                                                                   *)

VARIABLES
    pc,            \* position in main(): the statement about to run
    zoom,          \* f32, line 160
    substeps,      \* i32, line 161
    offsetx,       \* f32, line 162
    offsety,       \* f32, line 163
    elapsed_time,  \* clock ticks accumulated, lines 158 and 171
    should_close,  \* the window's close-request flag
    keys,          \* keys get_key reports as pressed since the last poll
    events,        \* key events queued for flush_messages
    u_time,        \* uniforms of the bound program, as last uploaded
    u_zoom,
    u_substeps,
    u_offset,
    back,          \* back buffer: Undefined, Black or Image(uniforms drawn with)
    front,         \* the buffer presented by the last swap
    frames,        \* input steps executed so far
    hold,          \* SpecHold: the keys held for the whole run ({} in Spec)
    position,      \* fragment shader input, a pair of f32
    sh_pc,         \* position in mandelbrot(): "idle", "enter", "loop", "ret"
    c,             \* shader locals
    z,
    i,
    FragColor,     \* shader output: <<r, g, b, a>>
    applied,       \* times the recurrence of line 45 has been applied
    escaped,       \* whether the test of line 46 has succeeded
    div_by_zero    \* whether i/substeps was evaluated with substeps = 0

hostVars   == << pc, zoom, substeps, offsetx, offsety, elapsed_time, should_close,
                 keys, events, back, front, frames, hold >>
uniforms   == << u_time, u_zoom, u_substeps, u_offset >>
shaderVars == << position, sh_pc, c, z, i, FragColor, applied, escaped, div_by_zero >>
vars       == << hostVars, uniforms, shaderVars >>

---------------------------------------------------------------------------
(* Input step of main(), lines 175-203, on v = [zoom, offsetx, offsety,    *)
(* substeps]                                                               *)

View == [zoom |-> zoom, offsetx |-> offsetx, offsety |-> offsety, substeps |-> substeps]

\* 0.01f, and a zoom-in that subtracts it instead of dividing by 1.01.
Hundredth == F32(0, 120, 2348810)
ZoomInSubtracts(v) == [v EXCEPT !.zoom = FSub(v.zoom, Hundredth)]
ZoomIn(v)   == [v EXCEPT !.zoom = FDiv(v.zoom, ZoomStep)]                   \* 176
\* A zoom-out that scales twice in one frame.
ZoomOutTwice(v) == [v EXCEPT !.zoom = FMul(FMul(v.zoom, ZoomStep), ZoomStep)]
ZoomOut(v)  == [v EXCEPT !.zoom = FMul(v.zoom, ZoomStep)]                   \* 179
PanUp(v)    == [v EXCEPT !.offsety = FAdd(v.offsety, FDiv(v.zoom, PanDiv))] \* 182
PanDown(v)  == [v EXCEPT !.offsety = FSub(v.offsety, FDiv(v.zoom, PanDiv))] \* 185
PanRight(v) == [v EXCEPT !.offsetx = FAdd(v.offsetx, FDiv(v.zoom, PanDiv))] \* 188
PanLeft(v)  == [v EXCEPT !.offsetx = FSub(v.offsetx, FDiv(v.zoom, PanDiv))] \* 191
Reset(v)    == [v EXCEPT !.offsetx = Zero(0), !.offsety = Zero(0), !.zoom = One]

\* substeps -= 1 under the guard substeps > 0 of line 201.
DetailDown(v) == IF v.substeps > 0 THEN [v EXCEPT !.substeps = v.substeps - 1] ELSE v

\* Whether substeps += 1 (line 199) overflows i32.
UpOverflows(v) == v.substeps = I32Max
\* substeps += 1; on overflow the value a build without overflow checks stores.
DetailUp(v) ==
    [v EXCEPT !.substeps = IF UpOverflows(v) THEN I32Min ELSE v.substeps + 1]

\* Each test of a key: if get_key reports it pressed, its effect, else nothing.
IfI(ks, v)         == IF "I" \in ks THEN ZoomIn(v) ELSE v            \* 175-177
IfK(ks, v)         == IF "K" \in ks THEN ZoomOut(v) ELSE v           \* 178-180
IfW(ks, v)         == IF "W" \in ks THEN PanUp(v) ELSE v             \* 181-183
IfS(ks, v)         == IF "S" \in ks THEN PanDown(v) ELSE v           \* 184-186
IfD(ks, v)         == IF "D" \in ks THEN PanRight(v) ELSE v          \* 187-189
IfA(ks, v)         == IF "A" \in ks THEN PanLeft(v) ELSE v           \* 190-192
IfBackspace(ks, v) == IF "Backspace" \in ks THEN Reset(v) ELSE v     \* 193-197
IfUp(ks, v)        == IF "Up" \in ks THEN DetailUp(v) ELSE v         \* 198-200
IfDown(ks, v)      == IF "Down" \in ks THEN DetailDown(v) ELSE v     \* 201-203

\* The seven tests with the reset test moved to the front.
BeforeDetailResetFirst(ks, v0) ==
    LET afterB == { IfBackspace(ks, v) : v \in {v0} }
        afterI == { IfI(ks, v) : v \in afterB }
        afterK == { IfK(ks, v) : v \in afterI }
        afterW == { IfW(ks, v) : v \in afterK }
        afterS == { IfS(ks, v) : v \in afterW }
        afterD == { IfD(ks, v) : v \in afterS }
    IN  CHOOSE r \in { IfA(ks, v) : v \in afterD } : TRUE

\* Lines 175-197: the seven tests that precede the detail keys, in source
\* order.  Each test acts on the values left by the one before it; every
\* stage below is the singleton set of the view after that test.
BeforeDetail(ks, v0) ==
    LET afterI == { IfI(ks, v) : v \in {v0} }
        afterK == { IfK(ks, v) : v \in afterI }
        afterW == { IfW(ks, v) : v \in afterK }
        afterS == { IfS(ks, v) : v \in afterW }
        afterD == { IfD(ks, v) : v \in afterS }
        afterA == { IfA(ks, v) : v \in afterD }
    IN  CHOOSE r \in { IfBackspace(ks, v) : v \in afterA } : TRUE

\* Whether line 199 is reached with substeps = i32::MAX, given the view b that
\* lines 175-197 left.
OverflowsAt(ks, b) == "Up" \in ks /\ UpOverflows(b)

\* The ways lines 175-204 can end: at "flush" with every test applied, and,
\* when substeps += 1 overflows, also at "panic" (a build with overflow checks
\* aborts at line 199; a build without them wraps and goes on).
OutcomesFrom(ks, b) ==
    { [pc |-> "flush", v |-> IfDown(ks, u)] : u \in { IfUp(ks, b) } }
    \cup (IF OverflowsAt(ks, b) THEN { [pc |-> "panic", v |-> b] } ELSE {})

KeyOutcomes(ks, v0) == UNION { OutcomesFrom(ks, b) : b \in { BeforeDetail(ks, v0) } }

\* handle_window_event, lines 241-248: the close flag after one event.
handle_window_event(flag, event) ==
    IF event.key = "Escape" /\ event.action = "Press" THEN TRUE ELSE flag

\* Lines 205-207: every queued event is handled, in order.
RECURSIVE FlushAll(_, _)
FlushAll(flag, q) ==
    IF q = <<>> THEN flag ELSE FlushAll(handle_window_event(flag, Head(q)), Tail(q))

---------------------------------------------------------------------------
(* Host render loop, lines 160-238                                         *)

\* Buffer contents.  The image a draw produces is a function of the uniforms
\* it was issued with.
Undefined == [kind |-> "undefined"]
Black     == [kind |-> "black"]
Image(u)  == [kind |-> "image", drawn_with |-> u]

Uniforms == [time |-> u_time, zoom |-> u_zoom, substeps |-> u_substeps, offset |-> u_offset]

HostInit ==
    /\ pc = "loop"
    /\ zoom = One
    /\ substeps = 1000
    /\ offsetx = Zero(0)
    /\ offsety = Zero(0)
    /\ elapsed_time = 0
    /\ should_close = FALSE
    /\ keys = {}
    /\ events = <<>>
    /\ u_time = 0
    /\ u_zoom = Zero(0)
    /\ u_substeps = 0
    /\ u_offset = << Zero(0), Zero(0) >>
    /\ back = Undefined
    /\ front = Undefined
    /\ frames = 0

ShaderIdle ==
    /\ position = << Zero(0), Zero(0) >>
    /\ sh_pc = "idle"
    /\ c = << Zero(0), Zero(0) >>
    /\ z = << Zero(0), Zero(0) >>
    /\ i = 0
    /\ FragColor = << 0, 0, 0, 0 >>
    /\ applied = 0
    /\ escaped = FALSE
    /\ div_by_zero = FALSE

viewVars == << zoom, substeps, offsetx, offsety >>
\* Everything of the host but pc.
rest == << viewVars, elapsed_time, should_close, keys, events, back, front, frames, hold >>
\* Everything of the host but pc and the buffers.
restNoBuf == << viewVars, elapsed_time, should_close, keys, events, frames, hold >>

\* Line 165, condition true: the loop body is entered.
LoopTest ==
    /\ pc = "loop"
    /\ ~should_close
    /\ pc' = "poll"
    /\ UNCHANGED << viewVars, elapsed_time, should_close, keys, events, back, front,
                    frames, hold, uniforms, shaderVars >>

\* Line 165, condition false: main() returns.
LoopExit ==
    /\ pc = "loop"
    /\ should_close
    /\ pc' = "end"
    /\ UNCHANGED << viewVars, elapsed_time, should_close, keys, events, back, front,
                    frames, hold, uniforms, shaderVars >>

\* Lines 166-173: the clock is sampled and poll_events() runs.  The monotonic
\* clock has advanced (by one tick, the unit of elapsed_time); the window
\* system decides which keys are now down, which key events are queued, and
\* whether the user asked to close the window.
Poll(ks) ==
    /\ pc = "poll"
    /\ elapsed_time' = IF elapsed_time < MaxElapsed THEN elapsed_time + 1 ELSE elapsed_time
    /\ keys' = ks
    /\ \E batch \in EventBatches : events' = batch
    /\ \E close_requested \in BOOLEAN : should_close' = (should_close \/ close_requested)
    /\ pc' = "keys"
    /\ UNCHANGED << viewVars, back, front, frames, hold, uniforms, shaderVars >>

PollEvents ==
    /\ frames < MaxFrames
    /\ \E ks \in KeySets : Poll(ks)

PollEventsHold ==
    /\ frames < MaxHoldFrames
    /\ Poll(hold)

\* Lines 175-204.
ProcessKeys ==
    /\ pc = "keys"
    /\ frames' = frames + 1
    /\ \E o \in KeyOutcomes(keys, View) :
          /\ pc' = o.pc
          /\ zoom' = o.v.zoom
          /\ offsetx' = o.v.offsetx
          /\ offsety' = o.v.offsety
          /\ substeps' = o.v.substeps
    /\ UNCHANGED << elapsed_time, should_close, keys, events, back, front, hold,
                    uniforms, shaderVars >>

\* Lines 205-207.
FlushMessages ==
    /\ pc = "flush"
    /\ should_close' = FlushAll(should_close, events)
    /\ events' = <<>>
    /\ pc' = "clear"
    /\ UNCHANGED << viewVars, elapsed_time, keys, back, front, frames, hold,
                    uniforms, shaderVars >>

\* Lines 210-211.
Clear ==
    /\ pc = "clear"
    /\ back' = Black
    /\ pc' = "u_time"
    /\ UNCHANGED << viewVars, elapsed_time, should_close, keys, events, front, frames,
                    hold, uniforms, shaderVars >>

\* Lines 213-216: u_time is the value handed to Uniform1f.  (The shader never
\* reads `time`; where the linker drops it the upload has no effect at all.)
UniformTime ==
    /\ pc = "u_time"
    /\ u_time' = elapsed_time
    /\ pc' = "u_zoom"
    /\ UNCHANGED << rest, u_zoom, u_substeps, u_offset, shaderVars >>

\* The zoom upload left out: the shader keeps the zoom of an earlier frame.
UniformZoomSkipped ==
    /\ pc = "u_zoom"
    /\ pc' = "u_substeps"
    /\ UNCHANGED << rest, uniforms, shaderVars >>

\* Lines 218-221.
UniformZoom ==
    /\ pc = "u_zoom"
    /\ u_zoom' = zoom
    /\ pc' = "u_substeps"
    /\ UNCHANGED << rest, u_time, u_substeps, u_offset, shaderVars >>

\* Lines 223-226.
UniformSubsteps ==
    /\ pc = "u_substeps"
    /\ u_substeps' = substeps
    /\ pc' = "u_offset"
    /\ UNCHANGED << rest, u_time, u_zoom, u_offset, shaderVars >>

\* Lines 228-232.
UniformOffset ==
    /\ pc = "u_offset"
    /\ u_offset' = << offsetx, offsety >>
    /\ pc' = "draw"
    /\ UNCHANGED << rest, u_time, u_zoom, u_substeps, shaderVars >>

\* Lines 234-235: the quad is drawn with the uniforms now bound.
DrawArrays ==
    /\ pc = "draw"
    /\ back' = Image(Uniforms)
    /\ pc' = "swap"
    /\ UNCHANGED << restNoBuf, front, uniforms, shaderVars >>

\* Line 237.
SwapBuffers ==
    /\ pc = "swap"
    /\ front' = back
    /\ back' = Undefined
    /\ pc' = "loop"
    /\ UNCHANGED << restNoBuf, uniforms, shaderVars >>

\* SpecHold only.  With Up alone held, a frame changes nothing of the view
\* but substeps (line 199), which it raises by one.  Taken after the first
\* frame, this step stands for the I32Max - 1 - substeps further such frames
\* that bring substeps to i32::MAX - 1 (2^31 frames cannot be enumerated one by
\* one); the frame that takes it to i32::MAX and the one that overflows are
\* then ordinary frames.  `frames` goes on counting the frames taken one by one.
FastForward ==
    /\ pc = "loop"
    /\ ~should_close
    /\ hold = {"Up"}
    /\ frames = 1
    /\ 0 <= substeps /\ substeps < I32Max - 1
    /\ substeps' = I32Max - 1
    /\ u_substeps' = I32Max - 1
    /\ front' = Image([Uniforms EXCEPT !.substeps = I32Max - 1])
    /\ UNCHANGED << pc, zoom, offsetx, offsety, elapsed_time, should_close, keys,
                    events, back, frames, hold, u_time, u_zoom, u_offset, shaderVars >>

Frame ==
    \/ LoopTest
    \/ LoopExit
    \/ ProcessKeys
    \/ FlushMessages
    \/ Clear
    \/ UniformTime
    \/ UniformZoom
    \/ UniformSubsteps
    \/ UniformOffset
    \/ DrawArrays
    \/ SwapBuffers

Init == HostInit /\ hold = {} /\ ShaderIdle
Next == PollEvents \/ Frame
Spec == Init /\ [][Next]_vars

InitHold == HostInit /\ hold \in HoldSets /\ ShaderIdle
NextHold == PollEventsHold \/ FastForward \/ Frame
SpecHold == InitHold /\ [][NextHold]_vars

---------------------------------------------------------------------------
(* Fragment shader, lines 26-58.  GLSL float arithmetic is taken to be      *)
(* round-to-nearest binary32 without fusing, and length() a correctly       *)
(* rounded square root of the rounded sum of squares.                       *)

NegOne == F32(1, 127, 0)
Half   == F32(0, 126, 0)

\* Interpolated quad positions at which a fragment is followed: the corners,
\* the edge midpoints, the centre and one interior point.
Pixels == { << x, y >> : x \in {NegOne, Zero(0), One}, y \in {NegOne, Zero(0), One} }
          \cup { << Half, Half >> }

\* Lines 40-42: c = position * zoom + offset.
FragC(p, zm, off) == << FAdd(FMul(p[1], zm), off[1]), FAdd(FMul(p[2], zm), off[2]) >>

\* Line 45: (z.x*z.x - z.y*z.y, 2.0*z.x*z.y) + c.
Iterate(zz, cc) ==
    << FAdd(FSub(FMul(zz[1], zz[1]), FMul(zz[2], zz[2])), cc[1]),
       FAdd(FMul(FMul(Two, zz[1]), zz[2]), cc[2]) >>

\* z.x*z.x + z.y*z.y as length() forms it.
LengthSq(zz) == FAdd(FMul(zz[1], zz[1]), FMul(zz[2], zz[2]))

\* Line 46: length(z) > 4.  The rounded root of s exceeds 4 exactly when s is
\* at least two units in the last place above 16; a NaN compares false.
LengthGt4(zz) ==
    \E s \in { LengthSq(zz) } :
        ~IsNaN(s) /\ s.s = 0 /\ (s.e > 131 \/ (s.e = 131 /\ s.f >= 2))

\* What an integer division by zero may yield: GLSL leaves it undefined.
UndefinedInts == {-1, 0, 1}

\* The quotient rounded up instead of truncated.
QuotientsRoundedUp(ii, n) == IF n = 0 THEN UndefinedInts ELSE { (ii + n - 1) \div n }

\* Line 47: the values i/substeps may take (integer division of non-negative
\* i by positive n truncates; by zero the result is undefined).
Quotients(ii, n) == IF n = 0 THEN UndefinedInts ELSE { ii \div n }

\* vec4(float(r), float(g), float(b), 1.) with the three quotients of line 47,
\* and vec4(1.): components as integers.
Gray(r, g, b) == << r, g, b, 1 >>
White   == << 1, 1, 1, 1 >>

\* Lines 39-42.
ShEnter ==
    /\ sh_pc = "enter"
    /\ z' = << Zero(0), Zero(0) >>
    /\ c' = FragC(position, u_zoom, u_offset)
    /\ i' = 0
    /\ sh_pc' = "loop"
    /\ UNCHANGED << hostVars, uniforms, position, FragColor, applied, escaped, div_by_zero >>

\* Lines 44-48: the loop condition holds, the body runs once: either line 47
\* returns, or i++ follows.
ShIter ==
    /\ sh_pc = "loop"
    /\ i <= u_substeps
    /\ \E zn \in { Iterate(z, c) } :
          /\ z' = zn
          /\ applied' = applied + 1
          /\ IF LengthGt4(zn)
             THEN /\ escaped' = TRUE
                  /\ div_by_zero' = (u_substeps = 0)
                  /\ \E r \in Quotients(i, u_substeps), g \in Quotients(i, u_substeps),
                        b \in Quotients(i, u_substeps) : FragColor' = Gray(r, g, b)
                  /\ sh_pc' = "ret"
                  /\ i' = i
             ELSE /\ i' = i + 1
                  /\ UNCHANGED << escaped, div_by_zero, FragColor, sh_pc >>
    /\ UNCHANGED << hostVars, uniforms, position, c >>

\* The fall-through of line 50 returning opaque black instead of white.
ShExitBlack ==
    /\ sh_pc = "loop"
    /\ ~(i <= u_substeps)
    /\ FragColor' = << 0, 0, 0, 1 >>
    /\ sh_pc' = "ret"
    /\ UNCHANGED << hostVars, uniforms, position, c, z, i, applied, escaped, div_by_zero >>

\* Lines 44 and 50: the loop condition fails.
ShExit ==
    /\ sh_pc = "loop"
    /\ ~(i <= u_substeps)
    /\ FragColor' = White
    /\ sh_pc' = "ret"
    /\ UNCHANGED << hostVars, uniforms, position, c, z, i, applied, escaped, div_by_zero >>

\* Uniform values the shader is run with.
ShaderZooms    == { One, Two, ZoomStep }
ShaderSubsteps == { 0, 1, 2, 3, 1000 }
ShaderOffsets  == { << Zero(0), Zero(0) >>, << F32(0, 129, 0), Zero(0) >>,
                    << F32(1, 126, 0), F32(0, 126, 0) >> }

\* A draw has been issued (line 235) with uniforms equal to the view, and one
\* fragment of it is followed.
InitShader ==
    /\ pc = "swap"
    /\ zoom \in ShaderZooms
    /\ substeps \in ShaderSubsteps
    /\ \E off \in ShaderOffsets : offsetx = off[1] /\ offsety = off[2]
    /\ elapsed_time = 1
    /\ should_close = FALSE
    /\ keys = {}
    /\ events = <<>>
    /\ u_time = 1
    /\ u_zoom = zoom
    /\ u_substeps = substeps
    /\ u_offset = << offsetx, offsety >>
    /\ back = Image(Uniforms)
    /\ front = Undefined
    /\ frames = 1
    /\ hold = {}
    /\ position \in Pixels
    /\ sh_pc = "enter"
    /\ c = << Zero(0), Zero(0) >>
    /\ z = << Zero(0), Zero(0) >>
    /\ i = 0
    /\ FragColor = << 0, 0, 0, 0 >>
    /\ applied = 0
    /\ escaped = FALSE
    /\ div_by_zero = FALSE

NextShader == ShEnter \/ ShIter \/ ShExit
SpecShader == InitShader /\ [][NextShader]_vars

---------------------------------------------------------------------------
(* Claims about the host loop.                                              *)

\* C1: in every reachable state iterationLimit (substeps) is at least 0, and
\* a frame with decrease-detail held, increase-detail not held and
\* iterationLimit = 0 leaves it at 0.
C1_LimitNeverNegative ==
    /\ substeps >= 0
    /\ substeps = 0 =>
          \A ks \in { k \in KeySets : "Down" \in k /\ "Up" \notin k } :
              \A o \in KeyOutcomes(ks, View) : o.v.substeps = 0

\* C2: the input step of a frame in which reset (Backspace) is pressed ends
\* with offset = (0,0) and zoom = 1, whatever the prior view and whichever
\* other keys are held in that frame.
\* The first conjunct observes the frames taken; the second applies the input
\* step to every reachable view with every set of keys that holds Backspace.
C2_ResetRestores ==
    /\ [][ (pc = "keys" /\ "Backspace" \in keys /\ pc' = "flush")
              => (zoom' = One /\ offsetx' = Zero(0) /\ offsety' = Zero(0)) ]_vars
    /\ [](pc = "poll" =>
            \A ks \in { k \in SUBSET Keys : "Backspace" \in k } :
                \A o \in KeyOutcomes(ks, View) :
                    o.pc = "flush" => /\ o.v.zoom = One
                                      /\ o.v.offsetx = Zero(0)
                                      /\ o.v.offsety = Zero(0))

\* C2 witness: a second frame, begun from a zoomed view (the displayed frame
\* was drawn with zoom # 1), with reset and zoom-out held, has ended its input
\* step at zoom 1.
C2_Witness ==
    /\ pc = "flush" /\ frames = 2 /\ keys = {"Backspace", "K"}
    /\ front.kind = "image" /\ front.drawn_with.zoom # One
    /\ zoom = One /\ offsetx = Zero(0) /\ offsety = Zero(0)

\* C3: zoom is strictly positive (not zero, not negative, not NaN) in every
\* reachable state.
C3_ZoomPositive == FPositive(zoom)

\* C3 witness: zoom-in has been held until zoom is a subnormal number that
\* division by 1.01 no longer changes, and it is still positive.
C3_Witness ==
    /\ hold = {"I"} /\ pc = "flush"
    /\ zoom.e = 0 /\ zoom.f > 0 /\ FDiv(zoom, ZoomStep) = zoom

\* C4: the render loop ends only when the close-request flag is set.
C4_EndsOnlyOnClose == pc \in {"end", "panic"} => should_close

\* C9: each frame runs input step, clear, the uploads of time, zoom, substeps
\* and offset, draw, swap, in this order; the view changes only in the input
\* step; and the zoom, limit and offset the draw uses are those the input step
\* of the same frame produced.
C9_FrameOrder ==
    [][ /\ (pc = "keys"       => pc' = "flush")
        /\ (pc = "flush"      => pc' = "clear")
        /\ (pc = "clear"      => pc' = "u_time" /\ back' = Black)
        /\ (pc = "u_time"     => pc' = "u_zoom")
        /\ (pc = "u_zoom"     => pc' = "u_substeps" /\ u_zoom' = zoom)
        /\ (pc = "u_substeps" => pc' = "u_offset" /\ u_substeps' = substeps)
        /\ (pc = "u_offset"   => pc' = "draw" /\ u_offset' = << offsetx, offsety >>)
        /\ (pc = "draw"       => /\ pc' = "swap"
                                 /\ u_zoom = zoom /\ u_substeps = substeps
                                 /\ u_offset = << offsetx, offsety >>
                                 /\ back' = Image(Uniforms))
        /\ (pc = "swap"       => pc' = "loop" /\ front' = back)
        /\ (pc # "keys"       => View' = View) ]_vars

\* C9 witness: the second frame has drawn with a view its input step changed.
C9_Witness ==
    /\ pc = "swap" /\ frames = 2 /\ keys = {"K", "Up"}
    /\ back.kind = "image"
    /\ back.drawn_with.zoom = zoom /\ back.drawn_with.substeps = substeps
    /\ front.kind = "image" /\ front.drawn_with.zoom # zoom

\* Whether the fragment at p, run with the uniforms u, reaches line 47 with
\* substeps = 0: the loop of line 44 runs its body for i = 0, and line 46
\* holds for the first iterate.
DividesByZero(p, u) ==
    /\ u.substeps = 0
    /\ LengthGt4(Iterate(<< Zero(0), Zero(0) >>, FragC(p, u.zoom, u.offset)))

\* C10: no fragment of a draw evaluates i/substeps with substeps = 0.
C10_NoDivisionByZero ==
    (pc = "swap" /\ back.kind = "image")
        => \A p \in Pixels : ~DividesByZero(p, back.drawn_with)

---------------------------------------------------------------------------
(* Claims about the fragment shader.                                        *)

\* The flag the shader steps raise at line 47 agrees with DividesByZero.
DividesByZeroAgrees ==
    sh_pc = "ret" => (div_by_zero <=> DividesByZero(position, Uniforms))

\* The default view at the centre of the quad, and the view of zoom 2 at the
\* corner (1,1), both with limit 1000.
AtCentreDefault ==
    /\ u_zoom = One /\ u_offset = << Zero(0), Zero(0) >> /\ u_substeps = 1000
    /\ position = << Zero(0), Zero(0) >>
AtCornerZoomTwo ==
    /\ u_zoom = Two /\ u_offset = << Zero(0), Zero(0) >> /\ u_substeps = 1000
    /\ position = << One, One >>

\* C6: a fragment whose orbit never has |z| > 4 within the loop is solid
\* white (1,1,1,1); at the centre of the default view c = (0,0), z stays (0,0)
\* at every step and the output is (1,1,1,1).
C6_WhiteWhenNoEscape ==
    /\ (sh_pc = "ret" /\ ~escaped) => FragColor = << 1, 1, 1, 1 >>
    /\ (AtCentreDefault /\ sh_pc \in {"loop", "ret"})
          => /\ c = << Zero(0), Zero(0) >>
             /\ z = << Zero(0), Zero(0) >>
             /\ ~escaped
             /\ sh_pc = "ret" => FragColor = << 1, 1, 1, 1 >>

\* C6 witness: the centre fragment of the default view has run the whole loop
\* and returned white.
C6_Witness ==
    /\ AtCentreDefault /\ sh_pc = "ret" /\ ~escaped
    /\ i = u_substeps + 1 /\ FragColor = << 1, 1, 1, 1 >>

\* C7: a fragment that first has |z| > 4 at loop index i, with limit L > 0, is
\* the gray (g,g,g,1) with g = i div L, so g = 0 when i < L and g is 0 or 1;
\* c = (2,2) with L = 1000 escapes at index 0 or 1 with intensity 0.
C7_GrayIsIndexDivLimit ==
    /\ (sh_pc = "ret" /\ escaped /\ u_substeps > 0)
          => /\ FragColor = << i \div u_substeps, i \div u_substeps, i \div u_substeps, 1 >>
             /\ FragColor[1] \in {0, 1}
             /\ i < u_substeps => FragColor[1] = 0
    /\ (AtCornerZoomTwo /\ sh_pc = "ret")
          => /\ c = << Two, Two >>
             /\ escaped /\ i \in {0, 1}
             /\ FragColor = << 0, 0, 0, 1 >>

\* C7 witness: the corner fragment at zoom 2 has escaped at index 1 and
\* returned intensity 0.
C7_Witness ==
    /\ AtCornerZoomTwo /\ sh_pc = "ret" /\ escaped
    /\ i = 1 /\ FragColor = << 0, 0, 0, 1 >>

\* C8: the loop applies the recurrence at most L times, and an escape is
\* reported only for one of the first L iterates (loop indices 0 .. L-1).
C8_AtMostLimitSteps ==
    sh_pc = "ret" => /\ applied <= u_substeps
                     /\ escaped => i < u_substeps

---------------------------------------------------------------------------
(* Claim C5: zoom against powers of 1.01.  The powers are enclosed in       *)
(* intervals of binary32 numbers, computed by repeated squaring with every  *)
(* endpoint moved outward by one unit in the last place after each rounded  *)
(* product, starting from the quotient 101/100.                             *)

\* The neighbours of a non-negative binary32 number.
FSucc(x) ==
    IF x.e = 255 THEN x
    ELSE IF x.f = 8388607 THEN F32(0, x.e + 1, 0) ELSE F32(0, x.e, x.f + 1)
FPred(x) ==
    IF x.f > 0 THEN F32(0, x.e, x.f - 1)
    ELSE IF x.e = 0 THEN x ELSE F32(0, x.e - 1, 8388607)

\* a <= b for non-negative numbers that are not NaN.
FLe(a, b) == a.e < b.e \/ (a.e = b.e /\ a.f <= b.f)

Widen(lo, hi) == [lo |-> FPred(lo), hi |-> FSucc(hi)]
IMul(a, b) == Widen(FMul(a.lo, b.lo), FMul(a.hi, b.hi))

\* Enclosures of 1.01 = 101/100 and of 1/1.01 = 100/101.
Ratio(n, d) == CHOOSE r \in { Widen(q, q) : q \in { FDiv(n, d) } } : TRUE
StepUp   == Ratio(F32(0, 133, 4849664), F32(0, 133, 4718592))
StepDown == Ratio(F32(0, 133, 4718592), F32(0, 133, 4849664))

\* An enclosure of b^n.
RECURSIVE IPow(_, _)
IPow(b, n) ==
    IF n = 0 THEN [lo |-> One, hi |-> One]
    ELSE IF n % 2 = 0
         THEN CHOOSE r \in { IMul(h, h) : h \in { IPow(b, n \div 2) } } : TRUE
         ELSE CHOOSE r \in { IMul(b, h) : h \in { IPow(b, n - 1) } } : TRUE

\* x is finite and within a factor 1 -+ 2^-7 of the enclosed number.
TolLo == F32(0, 126, 8257536)
TolHi == F32(0, 127, 65536)
Near(x, iv) ==
    /\ FPositive(x) /\ IsFinite(x)
    /\ FLe(FMul(iv.lo, TolLo), x)
    /\ FLe(x, FMul(iv.hi, TolHi))

\* The number of frames up to which C5 is stated in its amended form.
ZoomRangeFrames == 8700

\* zoom after `frames` whole frames with only zoom-in, or only zoom-out, held.
ZoomMatchesPower ==
    /\ hold = {"I"} => \E iv \in { IPow(StepDown, frames) } : Near(zoom, iv)
    /\ hold = {"K"} => \E iv \in { IPow(StepUp, frames) } : Near(zoom, iv)

\* C5 as stated: after N frames with only zoom-in held zoom = 1/1.01^N, and
\* with only zoom-out held zoom = 1.01^N, for every N (equality up to the
\* relative tolerance 2^-7).
C5_ZoomIsPower == pc = "loop" => ZoomMatchesPower

\* C5 amended: the same for N up to ZoomRangeFrames, where the powers are
\* normal binary32 numbers.
C5_ZoomIsPowerInRange ==
    (pc = "loop" /\ frames <= ZoomRangeFrames) => ZoomMatchesPower

\* C5 witness: zoom-in has been held for ZoomRangeFrames - 1 frames and zoom
\* is a small normal number near 1/1.01^N.
C5_Witness ==
    /\ pc = "loop" /\ hold = {"I"} /\ frames = ZoomRangeFrames - 1
    /\ zoom.e > 0 /\ zoom.e < 10
    /\ ZoomMatchesPower

===========================================================================
